---- MODULE Spec2Model ----
(***************************************************************************)
(* redux-actionz: action creators (action, asyncAction), handler mappings  *)
(* (handle, handleActions, handleActionsAppend) and the two reducer        *)
(* engines (createReducer, createReducerAppend) of src/index.d.ts, driven  *)
(* the way the tests of src/unnamed/part_000 and the examples drive them.  *)
(***************************************************************************)
EXTENDS Integers, Sequences, FiniteSets, TLC

\* ------------------------------------------------------------------------
\* Bounds
\* ------------------------------------------------------------------------
MaxSteps == 2      \* dispatches per store
MaxMaps == 2       \* length of the array given to handleActions[Append]
MaxCalls == 2      \* calls of action creators per behaviour
MaxDispatches == 6 \* dispatches to the store of two slices

\* ------------------------------------------------------------------------
\* JavaScript values.  Every value is a record of the same shape so that any
\* two values can be compared: t is the tag, n the number / heap address /
\* truth value, s the characters of a string.
\* ------------------------------------------------------------------------
Undefined == [t |-> "undefined", n |-> 0, s |-> <<>>]
Null == [t |-> "null", n |-> 0, s |-> <<>>]
NaN == [t |-> "NaN", n |-> 0, s |-> <<>>]
TypeError == [t |-> "TypeError", n |-> 0, s |-> <<>>]
Num(n) == [t |-> "number", n |-> n, s |-> <<>>]
Ref(a) == [t |-> "object", n |-> a, s |-> <<>>]
Str(s) == [t |-> "string", n |-> 0, s |-> s]
Bool(b) == [t |-> "boolean", n |-> IF b THEN 1 ELSE 0, s |-> <<>>]

\* The empty object literal {}.
EmptyObject == [k \in {} |-> Undefined]

\* state.key : a property read.  The heap is a sequence of objects, an object
\* a function from its own property names to values.
Get(hp, v, key) ==
    IF v.t = "object" /\ key \in DOMAIN hp[v.n] THEN hp[v.n][key] ELSE Undefined

\* x + y and x - y on the operands the handlers meet: numbers, undefined, NaN.
Plus(x, y) == IF x.t = "number" /\ y.t = "number" THEN Num(x.n + y.n) ELSE NaN
Minus(x, y) == IF x.t = "number" /\ y.t = "number" THEN Num(x.n - y.n) ELSE NaN

\* x + y for two strings.
Concat(x, y) == IF x.t = "string" /\ y.t = "string" THEN Str(x.s \o y.s) ELSE NaN

\* The outcome of a call: the heap after it, the value returned (or the
\* error thrown, when threw), and the handler calls made, in order.
Returned(hp, v) == [heap |-> hp, value |-> v, threw |-> FALSE]
Thrown(hp) == [heap |-> hp, value |-> TypeError, threw |-> TRUE]

\* An object literal {...}: a new object at the next address.
NewObject(hp, props) == Returned(Append(hp, props), Ref(Len(hp) + 1))

\* Reading a property of undefined or null throws.
Dereferencable(v) == v.t \notin {"undefined", "null"}

\* ------------------------------------------------------------------------
\* Own enumerable properties and object-assign
\* ------------------------------------------------------------------------
IndexKey == <<"0", "1", "2", "3", "4", "5", "6", "7", "8", "9", "10", "11",
              "12", "13", "14">>

\* Object(v)'s own enumerable properties: an object's own properties, a
\* string's characters under their indices, nothing for other primitives.
OwnProps(hp, v) ==
    IF v.t = "object" THEN hp[v.n]
    ELSE IF v.t = "string"
    THEN [k \in {IndexKey[i] : i \in 1..Len(v.s)} |->
            Str(<<v.s[CHOOSE i \in 1..Len(v.s) : IndexKey[i] = k]>>)]
    ELSE EmptyObject

\* AssignOne with the earlier source winning: a key the target already has
\* is not overwritten.
AssignOne_KeepsFirst(to, from) ==
    [k \in DOMAIN to \cup DOMAIN from |->
        IF k \in DOMAIN to THEN to[k] ELSE from[k]]

\* One source copied onto the target: every own key of the source
\* overwrites, every other key of the target stays.
AssignOne(to, from) ==
    [k \in DOMAIN to \cup DOMAIN from |->
        IF k \in DOMAIN from THEN from[k] ELSE to[k]]

RECURSIVE objectAssign(_, _)
\* objectAssign(to, ...sources): the sources are copied left to right.
objectAssign(to, sources) ==
    IF sources = <<>> THEN to
    ELSE objectAssign(AssignOne(to, Head(sources)), Tail(sources))

\* ------------------------------------------------------------------------
\* Payload reducers of the examples and tests (caller code)
\* ------------------------------------------------------------------------
\* (state, payload) => state + payload
increment(hp, state, payload) == Returned(hp, Plus(state, payload))

\* (state, payload) => state - payload
decrement(hp, state, payload) == Returned(hp, Minus(state, payload))

\* (state, payload) => ({counter: state.counter + payload})
incrementCounter(hp, state, payload) ==
    IF ~Dereferencable(state) THEN Thrown(hp)
    ELSE NewObject(hp, [k \in {"counter"} |->
                            Plus(Get(hp, state, "counter"), payload)])

\* (state, payload) => ({currentUser: payload})
createUser(hp, state, payload) ==
    NewObject(hp, [k \in {"currentUser"} |-> payload])

\* (state, x) => ({counter: state.counter + 1, value: state.value + x})
add(hp, state, x) ==
    IF ~Dereferencable(state) THEN Thrown(hp)
    ELSE NewObject(hp, [k \in {"counter", "value"} |->
                            IF k = "counter"
                            THEN Plus(Get(hp, state, "counter"), Num(1))
                            ELSE Plus(Get(hp, state, "value"), x)])

\* (state, payload) => ({}) : a partial reducer with nothing to change.
emptyPartial(hp, state, payload) == NewObject(hp, EmptyObject)

\* state => state + 1
incOne(hp, state, payload) == Returned(hp, Plus(state, Num(1)))

\* state => state - 1
decOne(hp, state, payload) == Returned(hp, Minus(state, Num(1)))

\* (state, payload) => ({str: state.str + payload})
appendStr(hp, state, payload) ==
    IF ~Dereferencable(state) THEN Thrown(hp)
    ELSE NewObject(hp, [k \in {"str"} |->
                            Concat(Get(hp, state, "str"), payload)])

\* (state, payload) => ({val: state.val + payload})
valPlus(hp, state, payload) ==
    IF ~Dereferencable(state) THEN Thrown(hp)
    ELSE NewObject(hp, [k \in {"val"} |->
                            Plus(Get(hp, state, "val"), payload)])

\* (state, payload) => ({val: state.val - payload})
valMinus(hp, state, payload) ==
    IF ~Dereferencable(state) THEN Thrown(hp)
    ELSE NewObject(hp, [k \in {"val"} |->
                            Minus(Get(hp, state, "val"), payload)])

\* state => ({val: state.val - 1000})
valFail(hp, state, payload) ==
    IF ~Dereferencable(state) THEN Thrown(hp)
    ELSE NewObject(hp, [k \in {"val"} |->
                            Minus(Get(hp, state, "val"), Num(1000))])

NumberHandlers == {"increment", "decrement"}
ObjectHandlers == {"incrementCounter", "createUser", "add", "emptyPartial"}

\* ------------------------------------------------------------------------
\* Object.prototype: what every object literal inherits.  Three of its
\* properties are modelled: two functions and the accessor __proto__, whose
\* value is an object and not callable.
\* ------------------------------------------------------------------------
ObjectPrototype ==
    [k \in {"toString", "hasOwnProperty", "__lookupGetter__", "__proto__"} |->
        IF k = "__proto__" THEN "Object.prototype"
        ELSE "Object.prototype." \o k]

ObjectToString == Str(<<"[", "o", "b", "j", "e", "c", "t", " ",
                        "O", "b", "j", "e", "c", "t", "]">>)

\* reducerMap[type](state, payload), for the function found under type.
CallHandler(h, hp, state, payload) ==
    CASE h = "increment" -> increment(hp, state, payload)
      [] h = "decrement" -> decrement(hp, state, payload)
      [] h = "incrementCounter" -> incrementCounter(hp, state, payload)
      [] h = "createUser" -> createUser(hp, state, payload)
      [] h = "add" -> add(hp, state, payload)
      [] h = "emptyPartial" -> emptyPartial(hp, state, payload)
      [] h = "incOne" -> incOne(hp, state, payload)
      [] h = "decOne" -> decOne(hp, state, payload)
      [] h = "appendStr" -> appendStr(hp, state, payload)
      [] h = "valPlus" -> valPlus(hp, state, payload)
      [] h = "valMinus" -> valMinus(hp, state, payload)
      [] h = "valFail" -> valFail(hp, state, payload)
      \* reducerMap.toString(): "[object Object]"
      [] h = "Object.prototype.toString" -> Returned(hp, ObjectToString)
      \* reducerMap.hasOwnProperty(state): no mapping has a state as a key
      [] h = "Object.prototype.hasOwnProperty" -> Returned(hp, Bool(FALSE))
      \* reducerMap.__lookupGetter__(state): no mapping has a getter
      [] h = "Object.prototype.__lookupGetter__" -> Returned(hp, Undefined)
      \* calling a value that is not a function
      [] OTHER -> Thrown(hp)

\* ------------------------------------------------------------------------
\* The reducer engines
\* ------------------------------------------------------------------------
\* type in reducerMap: own properties and inherited ones.
In(type, reducerMap) ==
    type \in DOMAIN reducerMap \/ type \in DOMAIN ObjectPrototype

\* reducerMap[type]: the own property first, then the prototype's.
Lookup(reducerMap, type) ==
    IF type \in DOMAIN reducerMap THEN reducerMap[type]
    ELSE ObjectPrototype[type]

\* DefaultState without the default: undefined stays undefined.
DefaultState_Skipped(state, initialState) == state

\* state: S = initialState : the default applies to undefined only.
DefaultState(state, initialState) ==
    IF state = Undefined THEN initialState ELSE state

\* The handler call a reducer makes, as it is logged.
HandlerCall(h, state, payload, r) ==
    [handler |-> h, state |-> state, payload |-> payload, value |-> r.value]

\* createReducer with the return before the handler call forgotten: the
\* handler is called and the state falls through unchanged.
createReducer_DropsResult(reducerMap, initialState, hp, st, action) ==
    LET state == DefaultState(st, initialState)
        type == action.type
    IN  IF In(type, reducerMap)
        THEN LET h == Lookup(reducerMap, type)
                 r == CallHandler(h, hp, state, action.payload)
             IN  [heap |-> r.heap, value |-> state, threw |-> r.threw,
                  calls |-> <<HandlerCall(h, state, action.payload, r)>>]
        ELSE [heap |-> hp, value |-> state, threw |-> FALSE, calls |-> <<>>]

\* createReducer answering undefined with the initial state before it looks
\* at the action.
createReducer_InitialFirst(reducerMap, initialState, hp, st, action) ==
    LET state == DefaultState(st, initialState)
        type == action.type
    IN  IF st # Undefined /\ In(type, reducerMap)
        THEN LET h == Lookup(reducerMap, type)
                 r == CallHandler(h, hp, state, action.payload)
             IN  [heap |-> r.heap, value |-> r.value, threw |-> r.threw,
                  calls |-> <<HandlerCall(h, state, action.payload, r)>>]
        ELSE [heap |-> hp, value |-> state, threw |-> FALSE, calls |-> <<>>]

\* The function createReducer(reducerMap, initialState) returns, applied to
\* (st, action) on heap hp.
createReducer(reducerMap, initialState, hp, st, action) ==
    LET state == DefaultState(st, initialState)
        type == action.type
    IN  IF In(type, reducerMap)
        THEN LET h == Lookup(reducerMap, type)
                 r == CallHandler(h, hp, state, action.payload)
             IN  [heap |-> r.heap, value |-> r.value, threw |-> r.threw,
                  calls |-> <<HandlerCall(h, state, action.payload, r)>>]
        ELSE [heap |-> hp, value |-> state, threw |-> FALSE, calls |-> <<>>]

\* createReducerAppend with the sources of the merge swapped: the state is
\* copied over the partition.
createReducerAppend_StateLast(reducerMap, initialState, hp, st, action) ==
    LET state == DefaultState(st, initialState)
        type == action.type
    IN  IF In(type, reducerMap)
        THEN LET h == Lookup(reducerMap, type)
                 r == CallHandler(h, hp, state, action.payload)
                 newStatePartition == r.value
                 merged == objectAssign(EmptyObject,
                               <<OwnProps(r.heap, newStatePartition),
                                 OwnProps(r.heap, state)>>)
                 calls == <<HandlerCall(h, state, action.payload, r)>>
             IN  IF r.threw
                 THEN [heap |-> r.heap, value |-> r.value, threw |-> TRUE,
                       calls |-> calls]
                 ELSE [heap |-> Append(r.heap, merged),
                       value |-> Ref(Len(r.heap) + 1), threw |-> FALSE,
                       calls |-> calls]
        ELSE [heap |-> hp, value |-> state, threw |-> FALSE, calls |-> <<>>]

\* createReducerAppend assigning into the initial-state object it closes
\* over, objectAssign(initialState, state, newStatePartition): the reducer
\* then carries the last result from call to call.
createReducerAppend_IntoInitial(reducerMap, initialState, hp, st, action) ==
    LET state == DefaultState(st, initialState)
        type == action.type
    IN  IF In(type, reducerMap)
        THEN LET h == Lookup(reducerMap, type)
                 r == CallHandler(h, hp, state, action.payload)
                 newStatePartition == r.value
                 merged == objectAssign(EmptyObject,
                               <<OwnProps(r.heap, initialState),
                                 OwnProps(r.heap, state),
                                 OwnProps(r.heap, newStatePartition)>>)
                 calls == <<HandlerCall(h, state, action.payload, r)>>
             IN  IF r.threw
                 THEN [heap |-> r.heap, value |-> r.value, threw |-> TRUE,
                       calls |-> calls]
                 ELSE IF initialState.t = "object"
                 THEN [heap |-> [r.heap EXCEPT ![initialState.n] = merged],
                       value |-> initialState, threw |-> FALSE,
                       calls |-> calls]
                 ELSE [heap |-> Append(r.heap, merged),
                       value |-> Ref(Len(r.heap) + 1), threw |-> FALSE,
                       calls |-> calls]
        ELSE [heap |-> hp, value |-> state, threw |-> FALSE, calls |-> <<>>]

\* createReducerAppend assigning into the state object it was given:
\* objectAssign(state, newStatePartition).
createReducerAppend_IntoState(reducerMap, initialState, hp, st, action) ==
    LET state == DefaultState(st, initialState)
        type == action.type
    IN  IF In(type, reducerMap)
        THEN LET h == Lookup(reducerMap, type)
                 r == CallHandler(h, hp, state, action.payload)
                 newStatePartition == r.value
                 merged == objectAssign(EmptyObject,
                               <<OwnProps(r.heap, state),
                                 OwnProps(r.heap, newStatePartition)>>)
                 calls == <<HandlerCall(h, state, action.payload, r)>>
             IN  IF r.threw
                 THEN [heap |-> r.heap, value |-> r.value, threw |-> TRUE,
                       calls |-> calls]
                 ELSE IF state.t = "object"
                 THEN [heap |-> [r.heap EXCEPT ![state.n] = merged],
                       value |-> state, threw |-> FALSE, calls |-> calls]
                 ELSE [heap |-> Append(r.heap, merged),
                       value |-> Ref(Len(r.heap) + 1), threw |-> FALSE,
                       calls |-> calls]
        ELSE [heap |-> hp, value |-> state, threw |-> FALSE, calls |-> <<>>]

\* The function createReducerAppend(reducerMap, initialState) returns.
createReducerAppend(reducerMap, initialState, hp, st, action) ==
    LET state == DefaultState(st, initialState)
        type == action.type
    IN  IF In(type, reducerMap)
        THEN LET h == Lookup(reducerMap, type)
                 r == CallHandler(h, hp, state, action.payload)
                 newStatePartition == r.value
                 merged == objectAssign(EmptyObject,
                               <<OwnProps(r.heap, state),
                                 OwnProps(r.heap, newStatePartition)>>)
                 calls == <<HandlerCall(h, state, action.payload, r)>>
             IN  IF r.threw
                 THEN [heap |-> r.heap, value |-> r.value, threw |-> TRUE,
                       calls |-> calls]
                 ELSE [heap |-> Append(r.heap, merged),
                       value |-> Ref(Len(r.heap) + 1), threw |-> FALSE,
                       calls |-> calls]
        ELSE [heap |-> hp, value |-> state, threw |-> FALSE, calls |-> <<>>]

\* The mapping handleActions and handleActionsAppend hand to the engine:
\* objectAssign({}, ...reducerMaps).
MergedMap(reducerMaps) == objectAssign(EmptyObject, reducerMaps)

\* handleActions handing only the first mapping of the array to the engine.
handleActions_FirstMapOnly(reducerMaps, initialState, hp, st, action) ==
    createReducer(IF reducerMaps = <<>> THEN EmptyObject
                  ELSE Head(reducerMaps),
                  initialState, hp, st, action)

\* The function handleActions(reducerMaps, initialState) returns:
\* createReducer(objectAssign({}, ...reducerMaps), initialState).
handleActions(reducerMaps, initialState, hp, st, action) ==
    createReducer(MergedMap(reducerMaps), initialState, hp, st, action)

\* The function handleActionsAppend(reducerMaps, initialState) returns:
\* createReducerAppend(objectAssign({}, ...reducerMaps), initialState).
handleActionsAppend(reducerMaps, initialState, hp, st, action) ==
    createReducerAppend(MergedMap(reducerMaps), initialState, hp, st, action)

\* ------------------------------------------------------------------------
\* Action creators
\* ------------------------------------------------------------------------
\* id losing its argument: (x) => {x}.
id_Undefined(x) == Undefined

\* const id = (x: any) => x
id(x) == x

\* 'x'.repeat(n)
Repeat(n) == Str([i \in 1..n |-> "x"])

\* An effect applied to data, with the test's variables counter and
\* lastError it writes: id, and the three effects of the tests.
Effect(e, hp, cnt, err, data) ==
    CASE e = "id" -> [value |-> id(data), counter |-> cnt, lastError |-> err]
      \* counter += data; return 'x'.repeat(data)
      [] e = "repeat" ->
            [value |-> Repeat(data.n), counter |-> cnt + data.n,
             lastError |-> err]
      \* counter += data; return data
      [] e = "countSuccess" ->
            [value |-> data, counter |-> cnt + data.n, lastError |-> err]
      \* lastError = data.error; return data
      [] e = "recordFail" ->
            [value |-> data, counter |-> cnt,
             lastError |-> Get(hp, data, "error")]

\* effect: ActionEffect<D, P> = id, and effects.start || id: an effect that
\* is not given is id.
EffectOrId(effect) == IF effect = "undefined" THEN "id" ELSE effect

\* action(type, effect): the action creator, bound to its type and effect.
action(type, effect) == [type |-> type, effect |-> EffectOrId(effect)]

\* actionCreator.toString()
toString(actionCreator) == actionCreator.type

\* handle keyed by the creator's effect and not by its type.
handle_KeyedByEffect(creator, h) == [k \in {creator.effect} |-> h]

\* handle(action, reducer): {[action.toString()]: reducer}
handle(creator, h) == [k \in {toString(creator)} |-> h]

\* asyncAction with fail built from the success effect.
asyncAction_FailFromSuccess(type, effects) ==
    [start |-> action(type \o ":start", EffectOrId(effects.start)),
     success |-> action(type \o ":success", EffectOrId(effects.success)),
     fail |-> action(type \o ":fail", EffectOrId(effects.success))]

\* asyncAction(type, effects)
asyncAction(type, effects) ==
    [start |-> action(type \o ":start", EffectOrId(effects.start)),
     success |-> action(type \o ":success", EffectOrId(effects.success)),
     fail |-> action(type \o ":fail", EffectOrId(effects.fail))]

\* ------------------------------------------------------------------------
\* Inputs
\* ------------------------------------------------------------------------
KeyTypes == {"inc", "dec"}
DispatchTypes == KeyTypes \cup {"dummy"} \cup DOMAIN ObjectPrototype
InitialStates == {Num(0), Ref(1)}
CreatorTypes == {"action type", "inc"}
AsyncTypes == {"async action", "req"}
Roles == {"start", "success", "fail"}
Slots == {"single"} \cup Roles
Effects == {"id", "repeat", "countSuccess", "recordFail"}

\* The objects the caller has made before anything is built: the initial
\* state, two users, an error.
InitialHeap ==
    << [k \in {"counter", "value", "currentUser"} |->
            CASE k = "counter" -> Num(0)
              [] k = "value" -> Num(10)
              [] k = "currentUser" -> Ref(2)],
       [k \in {"id", "name"} |->
            IF k = "id" THEN Num(1) ELSE Str(<<"B", "a", "r", "t">>)],
       [k \in {"id"} |-> Num(2)],
       [k \in {"error"} |-> Str(<<"4", "0", "4">>)] >>

\* The handlers that fit a state of initialState's type.
HandlersFor(initialState) ==
    IF initialState.t = "number" THEN NumberHandlers ELSE ObjectHandlers

\* The payloads a handler is written for.
PayloadsOf(h) ==
    CASE h = "createUser" -> {Ref(3), Null}
      [] h = "emptyPartial" -> {Null}
      [] OTHER -> {Num(5), Num(10)}

\* The data an effect is written for.
DataOf(e) ==
    CASE e = "id" -> {Num(4), Ref(4), Null}
      [] e = "repeat" -> {Num(1), Num(3)}
      [] e = "countSuccess" -> {Num(1), Num(4)}
      [] e = "recordFail" -> {Ref(4), Ref(3)}
      [] OTHER -> {}

Mappings(initialState) ==
    UNION {[D -> HandlersFor(initialState)] : D \in SUBSET KeyTypes}

\* The one-entry mappings handle() makes of a creator and a handler, the
\* handlers being those the tests and examples pass to handle().
Handled(initialState) ==
    {handle(action(type, "undefined"), h) :
        type \in KeyTypes, h \in HandlersFor(initialState) \ {"emptyPartial"}}

\* The arrays given to handleActions[Append]: [handle(...), handle(...)].
MappingSeqs(initialState) ==
    UNION {[1..n -> Handled(initialState)] : n \in 0..MaxMaps}

NoAction == [type |-> "", payload |-> Undefined]
NoCreator == [type |-> "", effect |-> ""]
NoArgs == [type |-> "", effect |-> ""]
NoEffects == [r \in Roles |-> "undefined"]
NoAsyncArgs == [type |-> "", effects |-> NoEffects]
NoStore == [a |-> Undefined, b |-> Undefined]
NoHandleArgs == [action |-> NoCreator, reducer |-> ""]
NoCall == [state |-> Undefined, action |-> NoAction, value |-> Undefined,
           threw |-> FALSE, calls |-> <<>>, heap |-> <<>>]

\* ------------------------------------------------------------------------
\* State
\* ------------------------------------------------------------------------
VARIABLES
    heap,          \* the objects allocated so far
    via,           \* the function the reducer was built with, or "none"
    reducerMaps,   \* the array given to handleActions[Append]
    reducerMap,    \* the mapping the reducer closes over
    initialState,  \* the initial state the reducer closes over
    state,         \* the state the caller holds (let state: ReduxState<S>)
    log,           \* the reducer calls made: arguments, result, handler calls
    creators,      \* the action creators built, by slot
    actionArgs,    \* the arguments action() was called with
    asyncArgs,     \* the arguments asyncAction() was called with
    creatorLog,    \* the creator calls made: slot, data, action returned
    fired,         \* calls of each effect
    counter,       \* the tests' counter
    lastError,     \* the tests' lastError
    state2,        \* the state a second caller of the same reducer holds
    sends,         \* per reducer call of a caller: caller, creator, data
    handleArgs,    \* the arguments handle() was called with
    store,         \* the store's state: the slices a and b
    dispatched     \* the store's dispatches: action, store before and after

reducerVars == <<via, reducerMaps, reducerMap, initialState, state, log>>
actionVars == <<creators, actionArgs, asyncArgs, creatorLog, fired, counter,
                lastError>>
callerVars == <<state2, sends, handleArgs>>
storeVars == <<store, dispatched>>
vars == <<heap, reducerVars, actionVars, callerVars, storeVars>>

\* The last reducer call.
last == IF log = <<>> THEN NoCall ELSE log[Len(log)]

\* The calls made of the creator in a slot.
called(slot) == Cardinality({i \in 1..Len(creatorLog) :
                                creatorLog[i].slot = slot})

Init ==
    /\ heap = InitialHeap
    /\ via = "none"
    /\ reducerMaps = <<>>
    /\ reducerMap = EmptyObject
    /\ initialState = Undefined
    /\ state = Undefined
    /\ log = <<>>
    /\ creators = [c \in Slots |-> NoCreator]
    /\ actionArgs = NoArgs
    /\ asyncArgs = NoAsyncArgs
    /\ creatorLog = <<>>
    /\ fired = [e \in Effects |-> 0]
    /\ counter = 0
    /\ lastError = Str(<<>>)
    /\ state2 = Undefined
    /\ sends = <<>>
    /\ handleArgs = NoHandleArgs
    /\ store = NoStore
    /\ dispatched = <<>>

\* ------------------------------------------------------------------------
\* Building reducers
\* ------------------------------------------------------------------------
Build(name, maps, map, initial) ==
    /\ via' = name
    /\ reducerMaps' = maps
    /\ reducerMap' = map
    /\ initialState' = initial
    /\ UNCHANGED <<heap, state, log, actionVars, callerVars, storeVars>>

\* const reducer = createReducer(reducerMap, initialState)
CreateReducer ==
    /\ via = "none"
    /\ \E initial \in InitialStates : \E map \in Mappings(initial) :
        Build("createReducer", <<>>, map, initial)

\* const reducer = createReducerAppend(reducerMap, initialState)
CreateReducerAppend ==
    /\ via = "none"
    /\ \E map \in Mappings(Ref(1)) :
        Build("createReducerAppend", <<>>, map, Ref(1))

\* const reducer = handleActions(reducerMaps, initialState)
HandleActions ==
    /\ via = "none"
    /\ \E initial \in InitialStates : \E maps \in MappingSeqs(initial) :
        Build("handleActions", maps, MergedMap(maps), initial)

\* const reducer = handleActionsAppend(reducerMaps, initialState)
HandleActionsAppend ==
    /\ via = "none"
    /\ \E maps \in MappingSeqs(Ref(1)) :
        Build("handleActionsAppend", maps, MergedMap(maps), Ref(1))

\* ------------------------------------------------------------------------
\* Calling the reducer
\* ------------------------------------------------------------------------
IsAppend == via \in {"createReducerAppend", "handleActionsAppend"}

\* reducer(st, action) for the reducer that was built.
reducer(hp, st, a) ==
    CASE via = "handleActions" ->
            handleActions(reducerMaps, initialState, hp, st, a)
      [] via = "handleActionsAppend" ->
            handleActionsAppend(reducerMaps, initialState, hp, st, a)
      [] via = "createReducerAppend" ->
            createReducerAppend(reducerMap, initialState, hp, st, a)
      [] OTHER -> createReducer(reducerMap, initialState, hp, st, a)

\* The state is undefined or of the type S the handlers are written for.
WellTyped(st) == st = Undefined \/ st.t = initialState.t

\* state = reducer(state, action): the first call is made with undefined,
\* every later one with the previous result.  An error leaves state as it
\* was.
Dispatch ==
    /\ via # "none"
    /\ Len(log) < MaxSteps
    /\ WellTyped(state)
    /\ \E type \in DispatchTypes :
       \E payload \in (IF type \in DOMAIN reducerMap
                       THEN PayloadsOf(reducerMap[type]) ELSE {Null}) :
        LET a == [type |-> type, payload |-> payload]
            r == reducer(heap, state, a)
        IN  /\ heap' = r.heap
            /\ state' = IF r.threw THEN state ELSE r.value
            /\ log' = Append(log, [state |-> state, action |-> a,
                                   value |-> r.value, threw |-> r.threw,
                                   calls |-> r.calls, heap |-> heap])
    /\ UNCHANGED <<via, reducerMaps, reducerMap, initialState, actionVars,
                   callerVars, storeVars>>

\* ------------------------------------------------------------------------
\* Building and calling action creators
\* ------------------------------------------------------------------------
\* const actionCreator = action(type, effect)
Action ==
    /\ actionArgs = NoArgs
    /\ \E type \in CreatorTypes : \E effect \in {"undefined", "repeat"} :
        /\ actionArgs' = [type |-> type, effect |-> effect]
        /\ creators' = [creators EXCEPT !["single"] = action(type, effect)]
    /\ UNCHANGED <<heap, reducerVars, asyncArgs, creatorLog, fired, counter,
                   lastError, callerVars, storeVars>>

\* const actionCreator = asyncAction(type, effects)
AsyncAction ==
    /\ asyncArgs = NoAsyncArgs
    /\ \E type \in AsyncTypes :
       \E effects \in [start : {"undefined", "repeat"},
                       success : {"undefined", "countSuccess"},
                       fail : {"undefined", "recordFail"}] :
        /\ asyncArgs' = [type |-> type, effects |-> effects]
        /\ LET made == asyncAction(type, effects)
           IN  creators' = [creators EXCEPT !["start"] = made.start,
                                            !["success"] = made.success,
                                            !["fail"] = made.fail]
    /\ UNCHANGED <<heap, reducerVars, actionArgs, creatorLog, fired, counter,
                   lastError, callerVars, storeVars>>

\* actionCreator calling its effect a second time for the payload.
actionCreator_EffectTwice(c, hp, cnt, err, data) ==
    LET first == Effect(c.effect, hp, cnt, err, data)
        e == Effect(c.effect, hp, first.counter, first.lastError, data)
    IN  [action |-> [type |-> c.type, payload |-> e.value],
         counter |-> e.counter, lastError |-> e.lastError,
         effects |-> <<c.effect, c.effect>>]

\* actionCreator(data): payload = effect(data); return {type, payload}.
\* effects lists the effect calls made.
actionCreator(c, hp, cnt, err, data) ==
    LET e == Effect(c.effect, hp, cnt, err, data)
    IN  [action |-> [type |-> c.type, payload |-> e.value],
         counter |-> e.counter, lastError |-> e.lastError,
         effects |-> <<c.effect>>]

RECURSIVE CountIn(_, _)
\* How many times x occurs in the sequence seq.
CountIn(x, seq) ==
    IF seq = <<>> THEN 0
    ELSE (IF Head(seq) = x THEN 1 ELSE 0) + CountIn(x, Tail(seq))

\* const actual = actionCreator(data)
CallCreator ==
    /\ Len(creatorLog) < MaxCalls
    /\ \E slot \in Slots : \E data \in DataOf(creators[slot].effect) :
        /\ creators[slot] # NoCreator
        /\ LET r == actionCreator(creators[slot], heap, counter, lastError,
                                  data)
           IN  /\ creatorLog' = Append(creatorLog,
                                   [slot |-> slot, data |-> data,
                                    action |-> r.action])
               /\ counter' = r.counter
               /\ lastError' = r.lastError
               /\ fired' = [e \in Effects |->
                               fired[e] + CountIn(e, r.effects)]
    /\ UNCHANGED <<heap, reducerVars, creators, actionArgs, asyncArgs,
                   callerVars, storeVars>>

\* ------------------------------------------------------------------------
\* Two callers of one reducer and the same action creators
\* ------------------------------------------------------------------------
\* const dummy = action<null>('dummy'): a creator no mapping handles.
dummy == action("dummy", "undefined")

\* The handlers handle() accepts for a creator: PayloadReducer<S, P> for
\* ActionCreator<any, P>.  The payload of the repeat effect is a string.
HandlersOf(creator, initial) ==
    IF creator.effect = "repeat"
    THEN HandlersFor(initial) \cap {"createUser", "emptyPartial"}
    ELSE HandlersFor(initial)

\* const reducer = handleActions([handle(actionCreator, h)], initialState),
\* or the same with handleActionsAppend.
Handle ==
    /\ via = "none"
    /\ creators["single"] # NoCreator
    /\ \E name \in {"handleActions", "handleActionsAppend"} :
       \E initial \in (IF name = "handleActions" THEN InitialStates
                       ELSE {Ref(1)}) :
       \E h \in HandlersOf(creators["single"], initial) :
        LET maps == <<handle(creators["single"], h)>>
        IN  /\ via' = name
            /\ reducerMaps' = maps
            /\ reducerMap' = MergedMap(maps)
            /\ initialState' = initial
            /\ handleArgs' = [action |-> creators["single"], reducer |-> h]
    /\ UNCHANGED <<heap, state, log, actionVars, state2, sends, storeVars>>

\* The creators the callers share: the one that was handled, the tests'
\* dummy, and a creator of every type built without effect.
Senders ==
    {creators["single"], dummy}
        \cup {action(type, "undefined") : type \in CreatorTypes}

\* The data a caller gives a creator: what its effect is written for, and
\* for id the payload the handler of its type is written for.
DataFor(creator) ==
    IF creator.effect # "id" THEN DataOf(creator.effect)
    ELSE IF creator.type \in DOMAIN reducerMap
    THEN PayloadsOf(reducerMap[creator.type])
    ELSE {Null}

\* state = reducer(state, actionCreator(data)), by one of the two callers,
\* each holding its own state.
Send(caller) ==
    /\ via # "none"
    /\ Len(log) < MaxSteps
    /\ WellTyped(IF caller = 1 THEN state ELSE state2)
    /\ \E creator \in Senders : \E data \in DataFor(creator) :
        LET st == IF caller = 1 THEN state ELSE state2
            made == actionCreator(creator, heap, counter, lastError, data)
            r == reducer(heap, st, made.action)
        IN  /\ heap' = r.heap
            /\ state' = IF caller = 1 /\ ~r.threw THEN r.value ELSE state
            /\ state2' = IF caller = 2 /\ ~r.threw THEN r.value ELSE state2
            /\ log' = Append(log, [state |-> st, action |-> made.action,
                                   value |-> r.value, threw |-> r.threw,
                                   calls |-> r.calls, heap |-> heap])
            /\ sends' = Append(sends, [caller |-> caller,
                                       creator |-> creator, data |-> data])
            /\ counter' = made.counter
            /\ lastError' = made.lastError
            /\ fired' = [e \in Effects |->
                            fired[e] + CountIn(e, made.effects)]
    /\ UNCHANGED <<via, reducerMaps, reducerMap, initialState, creators,
                   actionArgs, asyncArgs, creatorLog, handleArgs, storeVars>>

\* ------------------------------------------------------------------------
\* A store of two slices, each owned by a reducer of this library
\* ------------------------------------------------------------------------
\* The action creators of the integration test.
inc == action("inc", "undefined")
dec == action("dec", "undefined")
append == action("append", "undefined")
asynch == asyncAction("asynch", NoEffects)

\* The arrays of mappings reducerA and reducerB are built from.
MapsA == <<handle(inc, "incOne"), handle(dec, "decOne")>>
MapsB == <<handle(append, "appendStr"), handle(asynch.start, "valPlus"),
           handle(asynch.success, "valMinus"), handle(asynch.fail, "valFail")>>

\* The literal {val: 0, str: ''} and the address it is allocated at.
InitialB == [k \in {"val", "str"} |->
                IF k = "val" THEN Num(0) ELSE Str(<<>>)]
RefInitialB == Ref(Len(InitialHeap) + 1)

\* const reducerA = handleActions([...], 0)
reducerA(hp, st, a) == handleActions(MapsA, Num(0), hp, st, a)

\* const reducerB = handleActionsAppend([...], {val: 0, str: ''})
reducerB(hp, st, a) == handleActionsAppend(MapsB, RefInitialB, hp, st, a)

\* combineReducers({a: reducerA, b: reducerB}): every action goes to both
\* reducers, each with its own slice.
combined(hp, st, a) ==
    LET ra == reducerA(hp, st.a, a)
        rb == reducerB(ra.heap, st.b, a)
    IN  IF ra.threw THEN [heap |-> ra.heap, threw |-> TRUE, value |-> st]
        ELSE IF rb.threw THEN [heap |-> rb.heap, threw |-> TRUE, value |-> st]
        ELSE [heap |-> rb.heap, threw |-> FALSE,
              value |-> [a |-> ra.value, b |-> rb.value]]

\* The actions the test dispatches, asynch.fail added, and an action whose
\* type is a name every object inherits.
StoreActions ==
    {actionCreator(inc, heap, counter, lastError, Null).action,
     actionCreator(dec, heap, counter, lastError, Null).action,
     actionCreator(append, heap, counter, lastError,
                   Str(<<"a", "b", "c">>)).action,
     actionCreator(asynch.start, heap, counter, lastError, Num(10)).action,
     actionCreator(asynch.success, heap, counter, lastError, Num(1)).action,
     actionCreator(asynch.fail, heap, counter, lastError, Null).action,
     [type |-> "hasOwnProperty", payload |-> Null]}

\* const store = createStore(reducer): the store asks the reducers for their
\* initial states with an action of its own.
CreateStore ==
    /\ store = NoStore
    /\ via = "none"
    /\ creators["single"] = NoCreator
    /\ LET r == combined(Append(heap, InitialB), NoStore,
                         [type |-> "@@redux/INIT", payload |-> Undefined])
       IN  /\ heap' = r.heap
           /\ store' = r.value
    /\ UNCHANGED <<reducerVars, actionVars, callerVars, dispatched>>

\* store.dispatch(action)
StoreDispatch ==
    /\ store # NoStore
    /\ Len(dispatched) < MaxDispatches
    /\ store.a.t = "number"
    /\ \E a \in StoreActions :
        LET r == combined(heap, store, a)
        IN  /\ heap' = r.heap
            /\ store' = r.value
            /\ dispatched' = Append(dispatched,
                                [action |-> a, before |-> store,
                                 after |-> r.value, threw |-> r.threw])
    /\ UNCHANGED <<reducerVars, actionVars, callerVars>>

\* ------------------------------------------------------------------------
\* Specifications
\* ------------------------------------------------------------------------
Next ==
    \/ CreateReducer
    \/ CreateReducerAppend
    \/ HandleActions
    \/ HandleActionsAppend
    \/ Dispatch

Spec == Init /\ [][Next]_vars

NextActions ==
    \/ Action
    \/ AsyncAction
    \/ CallCreator

SpecActions == Init /\ [][NextActions]_vars

NextCallers ==
    \/ Action
    \/ Handle
    \/ Send(1)
    \/ Send(2)

SpecCallers == Init /\ [][NextCallers]_vars

NextStore ==
    \/ CreateStore
    \/ StoreDispatch

SpecStore == Init /\ [][NextStore]_vars

\* ------------------------------------------------------------------------
\* Properties of the reducer engines (checked under Spec)
\* ------------------------------------------------------------------------
\* The heap right after the i-th reducer call.
HeapAfter(i) == IF i = Len(log) THEN heap ELSE log[i + 1].heap

\* The state the caller holds right after the i-th reducer call.
StateAfter(i) == IF i = Len(log) THEN state ELSE log[i + 1].state

\* The value the handler h is written to return for (st, payload), given
\* the value v it returned: numbers by their sum or difference, objects by
\* their properties.
ReturnsAsWritten(h, hp, hpAfter, st, payload, v) ==
    CASE h = "increment" -> v = Plus(st, payload)
      [] h = "decrement" -> v = Minus(st, payload)
      [] h = "incrementCounter" ->
            /\ v.t = "object"
            /\ DOMAIN hpAfter[v.n] = {"counter"}
            /\ hpAfter[v.n]["counter"] = Plus(Get(hp, st, "counter"), payload)
      [] h = "createUser" ->
            /\ v.t = "object"
            /\ DOMAIN hpAfter[v.n] = {"currentUser"}
            /\ hpAfter[v.n]["currentUser"] = payload
      [] h = "add" ->
            /\ v.t = "object"
            /\ DOMAIN hpAfter[v.n] = {"counter", "value"}
            /\ hpAfter[v.n]["counter"] = Plus(Get(hp, st, "counter"), Num(1))
            /\ hpAfter[v.n]["value"] = Plus(Get(hp, st, "value"), payload)
      [] h = "emptyPartial" -> v.t = "object" /\ DOMAIN hpAfter[v.n] = {}
      [] OTHER -> FALSE

\* The one handler call of the i-th reducer call is mapping[type](st,
\* action.payload).
CallsHandlerOn(i, st) ==
    LET c == log[i]
    IN  /\ Len(c.calls) = 1
        /\ c.calls[1].handler = reducerMap[c.action.type]
        /\ c.calls[1].state = st
        /\ c.calls[1].payload = c.action.payload
        /\ ReturnsAsWritten(c.calls[1].handler, c.heap, HeapAfter(i), st,
                            c.action.payload, c.calls[1].value)

\* C1 as stated: a reducer called with undefined returns the initial state
\* for every action, a handled one included, and calls no handler.
C1_UndefinedAlwaysYieldsInitialState ==
    \A i \in 1..Len(log) :
        log[i].state = Undefined =>
            /\ log[i].value = initialState
            /\ log[i].calls = <<>>

\* C1 amended: a reducer called with undefined acts as on the initial state
\* I.  It returns I itself, no handler called, when the action's type is
\* neither a key of the mapping nor a property the mapping inherits; when
\* the type is a key, mapping[type] is called with (I, payload), and
\* createReducer returns its result, createReducerAppend a new object with
\* I's properties overwritten by the result's.
C1_UndefinedActsAsInitialState ==
    \A i \in 1..Len(log) :
        LET c == log[i]
            type == c.action.type
        IN  c.state = Undefined =>
            /\ (type \notin DOMAIN reducerMap
                    /\ type \notin DOMAIN ObjectPrototype) =>
                    /\ c.value = initialState
                    /\ ~c.threw
                    /\ c.calls = <<>>
                    /\ StateAfter(i) = initialState
            /\ type \in DOMAIN reducerMap =>
                    /\ CallsHandlerOn(i, initialState)
                    /\ ~c.threw
                    /\ ~IsAppend => c.value = c.calls[1].value
                    /\ IsAppend =>
                        /\ c.value.t = "object"
                        /\ HeapAfter(i)[c.value.n] =
                             [k \in DOMAIN c.heap[initialState.n]
                                    \cup DOMAIN HeapAfter(i)[c.calls[1].value.n]
                              |-> IF k \in DOMAIN HeapAfter(i)[c.calls[1].value.n]
                                  THEN HeapAfter(i)[c.calls[1].value.n][k]
                                  ELSE c.heap[initialState.n][k]]

\* C1 witness: the first call, made with undefined, carried a handled
\* action and returned the handler's result, not the initial state.
C1_Witness ==
    /\ Len(log) >= 1
    /\ log[1].state = Undefined
    /\ log[1].action.type \in DOMAIN reducerMap
    /\ log[1].value # initialState
    /\ Len(log[1].calls) = 1

\* C2: a createReducer reducer on a defined state returns that state itself,
\* no handler called, for every action whose type is not a key the caller
\* put in the mapping, whatever string the type is.
C2_UnhandledTypeKeepsReference ==
    \A i \in 1..Len(log) :
        LET c == log[i]
        IN  (~IsAppend /\ c.state # Undefined
                /\ c.action.type \notin DOMAIN reducerMap) =>
                /\ ~c.threw
                /\ c.value = c.state
                /\ c.calls = <<>>

\* C3: a createReducerAppend reducer on a defined state returns that state
\* by reference, nothing copied or merged, for every action whose type is
\* not a key of the mapping.
C3_AppendUnhandledTypeKeepsReference ==
    \A i \in 1..Len(log) :
        LET c == log[i]
        IN  (IsAppend /\ c.state # Undefined
                /\ c.action.type \notin DOMAIN reducerMap) =>
                /\ ~c.threw
                /\ c.value = c.state
                /\ HeapAfter(i) = c.heap

\* C4: a createReducer reducer on a defined state s and an action whose
\* type t is a key of the mapping returns exactly mapping[t](s, payload):
\* the handler gets the payload, its value is the next state wholesale, and
\* nothing is allocated or kept besides what the handler returns.
C4_HandledActionReplacesState ==
    \A i \in 1..Len(log) :
        LET c == log[i]
        IN  (via \in {"createReducer", "handleActions"}
                /\ c.state # Undefined
                /\ c.action.type \in DOMAIN reducerMap) =>
                /\ CallsHandlerOn(i, c.state)
                /\ ~c.threw
                /\ c.value = c.calls[1].value
                /\ StateAfter(i) = c.value
                /\ c.value.t = "object" =>
                        /\ Len(HeapAfter(i)) = Len(c.heap) + 1
                        /\ c.value.n = Len(HeapAfter(i))

\* C4 witness: createUser replaced a state that had a counter by an object
\* that has a currentUser and nothing else.
C4_Witness ==
    /\ via = "createReducer"
    /\ Len(log) >= 1
    /\ last.state.t = "object"
    /\ "counter" \in DOMAIN last.heap[last.state.n]
    /\ last.action.type \in DOMAIN reducerMap
    /\ reducerMap[last.action.type] = "createUser"
    /\ state.t = "object"
    /\ DOMAIN heap[state.n] = {"currentUser"}

\* C5: a createReducerAppend reducer on a defined state s and an action
\* whose type t is a key of the mapping, with partial = mapping[t](s,
\* payload), returns an object that has partial's value under every key of
\* partial and s's value under every other key of s; the merge is one level
\* deep, a nested object named in partial replaces the old one whole and no
\* existing object is written.
C5_HandledActionMergesShallowly ==
    \A i \in 1..Len(log) :
        LET c == log[i]
        IN  (IsAppend /\ c.state # Undefined
                /\ c.action.type \in DOMAIN reducerMap) =>
                /\ CallsHandlerOn(i, c.state)
                /\ ~c.threw
                /\ c.value.t = "object"
                /\ LET s == c.heap[c.state.n]
                       partial == HeapAfter(i)[c.calls[1].value.n]
                       result == HeapAfter(i)[c.value.n]
                   IN  /\ DOMAIN result = DOMAIN s \cup DOMAIN partial
                       /\ \A k \in DOMAIN partial : result[k] = partial[k]
                       /\ \A k \in DOMAIN s \ DOMAIN partial :
                                result[k] = s[k]
                /\ \A a \in 1..Len(c.heap) : HeapAfter(i)[a] = c.heap[a]

\* C5 witness: createUser named a user without a name; the result keeps the
\* counter, and its currentUser is that user, the old user's name not
\* merged in.
C5_Witness ==
    /\ IsAppend
    /\ Len(log) >= 1
    /\ last.state.t = "object"
    /\ Get(last.heap, last.state, "currentUser") = Ref(2)
    /\ "name" \in DOMAIN heap[2]
    /\ last.action.type \in DOMAIN reducerMap
    /\ reducerMap[last.action.type] = "createUser"
    /\ last.action.payload = Ref(3)
    /\ state # last.state
    /\ Get(heap, state, "currentUser") = Ref(3)
    /\ "name" \notin DOMAIN heap[3]
    /\ Get(heap, state, "counter") = Get(last.heap, last.state, "counter")
    /\ Get(heap, state, "counter").t = "number"

\* The last mapping of reducerMaps that has the key k.
LastWith(k) ==
    CHOOSE j \in 1..Len(reducerMaps) :
        /\ k \in DOMAIN reducerMaps[j]
        /\ \A i \in (j + 1)..Len(reducerMaps) : k \notin DOMAIN reducerMaps[i]

\* C6: the mapping handleActions and handleActionsAppend build has as keys
\* the union of the keys of the mappings given and, under every key, the
\* handler of the last mapping that has the key; this is the handler the
\* reducer calls.
C6_LaterMappingWins ==
    via \in {"handleActions", "handleActionsAppend"} =>
        /\ DOMAIN reducerMap =
             UNION {DOMAIN reducerMaps[j] : j \in 1..Len(reducerMaps)}
        /\ \A k \in DOMAIN reducerMap :
                reducerMap[k] = reducerMaps[LastWith(k)][k]
        /\ \A i \in 1..Len(log) :
                (log[i].action.type
                    \in UNION {DOMAIN reducerMaps[j] :
                                    j \in 1..Len(reducerMaps)}) =>
                    /\ Len(log[i].calls) = 1
                    /\ log[i].calls[1].handler =
                         reducerMaps[LastWith(log[i].action.type)]
                                    [log[i].action.type]

\* C6 witness: two mappings gave different handlers for "inc", and the
\* reducer called the second one's.
C6_Witness ==
    /\ via = "handleActions"
    /\ Len(reducerMaps) = 2
    /\ "inc" \in DOMAIN reducerMaps[1]
    /\ "inc" \in DOMAIN reducerMaps[2]
    /\ reducerMaps[1]["inc"] # reducerMaps[2]["inc"]
    /\ Len(log) >= 1
    /\ last.action.type = "inc"
    /\ Len(last.calls) = 1
    /\ last.calls[1].handler = reducerMaps[2]["inc"]

\* The scenario of C7: initial state 0, inc adds and dec subtracts, and the
\* calls made are inc(10) with undefined, then dec(5).
IncTenDecFive ==
    /\ initialState = Num(0)
    /\ DOMAIN reducerMap = {"inc", "dec"}
    /\ reducerMap["inc"] = "increment"
    /\ reducerMap["dec"] = "decrement"
    /\ Len(log) = 2
    /\ log[1].state = Undefined
    /\ log[1].action = [type |-> "inc", payload |-> Num(10)]
    /\ log[2].action = [type |-> "dec", payload |-> Num(5)]

\* C7: with initial state 0, inc: (s, p) => s + p and dec: (s, p) => s - p,
\* the calls inc(10), dec(5), the first made with undefined and the second
\* with the first one's result, end in state 5.
C7_IncTenDecFiveEndsInFive ==
    IncTenDecFive =>
        /\ log[2].state = log[1].value
        /\ state = Num(5)

\* C7 witness: the scenario has run.
C7_Witness == IncTenDecFive /\ state = Num(5) /\ log[2].state = Num(10)

\* ------------------------------------------------------------------------
\* Properties of the action creators (checked under SpecActions)
\* ------------------------------------------------------------------------
\* f(d), as the effect f is written.
PayloadAsWritten(f, d) ==
    IF f = "repeat" THEN Str([j \in 1..d.n |-> "x"]) ELSE d

\* The creator calls made through a creator whose effect is f.
CallsWith(f) ==
    {i \in 1..Len(creatorLog) : creators[creatorLog[i].slot].effect = f}

RECURSIVE CounterAfter(_)
\* The counter after the first n creator calls, if every call ran its
\* effect once on its data: repeat and countSuccess add the data.
CounterAfter(n) ==
    IF n = 0 THEN 0
    ELSE CounterAfter(n - 1)
            + (IF creators[creatorLog[n].slot].effect
                    \in {"repeat", "countSuccess"}
               THEN creatorLog[n].data.n ELSE 0)

\* C8: action(t, f)(d) returns {type: t, payload: f(d)}; f is called once
\* per call of the creator, on d, and not when the creator is built: after
\* n calls f has been called n times.
C8_EffectRunsOncePerCall ==
    /\ actionArgs # NoArgs =>
            /\ creators["single"].type = actionArgs.type
            /\ actionArgs.effect # "undefined" =>
                    creators["single"].effect = actionArgs.effect
    /\ \A i \in 1..Len(creatorLog) :
            LET c == creatorLog[i]
            IN  /\ c.action.type = creators[c.slot].type
                /\ c.action.payload =
                        PayloadAsWritten(creators[c.slot].effect, c.data)
    /\ \A f \in Effects : fired[f] = Cardinality(CallsWith(f))
    /\ counter = CounterAfter(Len(creatorLog))

\* C8 witness: a creator built with the repeat effect was called with 1 and
\* with 3; the effect ran twice and the last payload is 'xxx'.
C8_Witness ==
    /\ actionArgs.effect = "repeat"
    /\ Len(creatorLog) = 2
    /\ creatorLog[1].slot = "single" /\ creatorLog[1].data = Num(1)
    /\ creatorLog[2].slot = "single" /\ creatorLog[2].data = Num(3)
    /\ creatorLog[2].action.payload = Str(<<"x", "x", "x">>)
    /\ fired["repeat"] = 2
    /\ counter = 4

\* C9: the creator action(t) builds, no effect given, returns {type: t,
\* payload: d} with d itself as payload, and its toString() returns t.
C9_NoEffectMeansIdentity ==
    (actionArgs # NoArgs /\ actionArgs.effect = "undefined") =>
        /\ toString(creators["single"]) = actionArgs.type
        /\ \A i \in 1..Len(creatorLog) :
                creatorLog[i].slot = "single" =>
                    creatorLog[i].action =
                        [type |-> actionArgs.type,
                         payload |-> creatorLog[i].data]

\* C9 witness: action('action type') was called with an object and returned
\* that object as payload.
C9_Witness ==
    /\ actionArgs = [type |-> "action type", effect |-> "undefined"]
    /\ Len(creatorLog) >= 1
    /\ creatorLog[1].slot = "single"
    /\ creatorLog[1].data = Ref(4)
    /\ creatorLog[1].action = [type |-> "action type", payload |-> Ref(4)]

\* The effect asyncAction's creator for a role runs.
OwnEffect(role) ==
    IF asyncArgs.effects[role] = "undefined" THEN "id"
    ELSE asyncArgs.effects[role]

\* The calls made of a role's creator, when its effect is f.
CallsOf(role, f) ==
    IF creators[role].effect = f THEN called(role) ELSE 0

\* The value of lastError: the error of the last fail call that ran
\* recordFail, the empty string when there is none.
LastRecorded ==
    LET fails == {i \in 1..Len(creatorLog) :
                    /\ creatorLog[i].slot = "fail"
                    /\ asyncArgs.effects["fail"] = "recordFail"}
    IN  IF fails = {} THEN Str(<<>>)
        ELSE Get(heap,
                 creatorLog[CHOOSE i \in fails : \A j \in fails : j <= i].data,
                 "error")

\* C10: asyncAction(base, effects) returns creators start, success and fail
\* of types base:start, base:success and base:fail; each runs the effect
\* given under its own name, id when none is given, and a call of one
\* creator runs no other creator's effect.
C10_AsyncCreatorsKeepTheirOwnEffects ==
    asyncArgs # NoAsyncArgs =>
        /\ creators["start"].type = asyncArgs.type \o ":start"
        /\ creators["success"].type = asyncArgs.type \o ":success"
        /\ creators["fail"].type = asyncArgs.type \o ":fail"
        /\ \A role \in Roles : creators[role].effect = OwnEffect(role)
        /\ \A i \in 1..Len(creatorLog) :
                LET c == creatorLog[i]
                IN  c.slot \in Roles =>
                        /\ c.action.type = asyncArgs.type \o ":" \o c.slot
                        /\ c.action.payload =
                                PayloadAsWritten(OwnEffect(c.slot), c.data)
        /\ fired["countSuccess"] = CallsOf("success", "countSuccess")
        /\ fired["recordFail"] = CallsOf("fail", "recordFail")
        /\ fired["repeat"] =
                CallsOf("start", "repeat") + CallsOf("single", "repeat")
        /\ lastError = LastRecorded

\* C10 witness: with effects for success and fail, success(4) then
\* fail({error: '404'}) returned async action:success and async action:fail,
\* each effect ran once, counter is 4 and lastError '404'.
C10_Witness ==
    /\ asyncArgs.type = "async action"
    /\ asyncArgs.effects = [start |-> "undefined",
                            success |-> "countSuccess",
                            fail |-> "recordFail"]
    /\ Len(creatorLog) = 2
    /\ creatorLog[1] = [slot |-> "success", data |-> Num(4),
                        action |-> [type |-> "async action:success",
                                    payload |-> Num(4)]]
    /\ creatorLog[2] = [slot |-> "fail", data |-> Ref(4),
                        action |-> [type |-> "async action:fail",
                                    payload |-> Ref(4)]]
    /\ fired = [e \in Effects |->
                    IF e \in {"countSuccess", "recordFail"} THEN 1 ELSE 0]
    /\ counter = 4
    /\ lastError = Str(<<"4", "0", "4">>)

\* ------------------------------------------------------------------------
\* Properties of the composite helpers and of a store's run (under Spec)
\* ------------------------------------------------------------------------
\* The left-to-right merge of the mappings ms: every key of any of them,
\* with the handler of the last mapping that has it.
LeftToRightMerge(ms) ==
    [k \in UNION {DOMAIN ms[j] : j \in 1..Len(ms)} |->
        ms[CHOOSE j \in 1..Len(ms) :
                /\ k \in DOMAIN ms[j]
                /\ \A i \in (j + 1)..Len(ms) : k \notin DOMAIN ms[i]][k]]

\* What the i-th reducer call did: heap after, value, error, handler calls.
Outcome(i) ==
    [heap |-> HeapAfter(i), value |-> log[i].value, threw |-> log[i].threw,
     calls |-> log[i].calls]

\* C12: the reducer of handleActions(ms, I) does on every state, missing or
\* defined, and every action what the reducer of createReducer(M, I) does,
\* M the left-to-right merge of ms; and so handleActionsAppend against
\* createReducerAppend.
C12_CompositeHelpersAddNothing ==
    \A i \in 1..Len(log) :
        LET c == log[i]
            M == LeftToRightMerge(reducerMaps)
        IN  /\ via = "handleActions" =>
                Outcome(i) =
                    createReducer(M, initialState, c.heap, c.state, c.action)
            /\ via = "handleActionsAppend" =>
                Outcome(i) =
                    createReducerAppend(M, initialState, c.heap, c.state,
                                        c.action)

\* C12 witness: handleActions was given two mappings with different keys;
\* the first call came with undefined, the second with a defined state and
\* the key of the second mapping, and its handler was called.
C12_Witness ==
    /\ via = "handleActions"
    /\ Len(reducerMaps) = 2
    /\ DOMAIN reducerMaps[1] # DOMAIN reducerMaps[2]
    /\ Len(log) = 2
    /\ log[1].state = Undefined
    /\ log[2].state # Undefined
    /\ log[2].action.type \in DOMAIN reducerMaps[2]
    /\ Len(log[2].calls) = 1
    /\ log[2].calls[1].handler = reducerMaps[2][log[2].action.type]

\* C13: a store feeds the reducer its own previous result, starting from
\* the missing state: after the first call the state is defined, and every
\* later call is given a defined state, so the initial state is substituted
\* on the first call only.
C13_StateStaysDefined ==
    /\ Len(log) >= 1 => state # Undefined
    /\ \A i \in 2..Len(log) : log[i].state # Undefined

\* The objects of the heap hp as they are in the later heap hpAfter.
Untouched(hp, hpAfter) ==
    /\ Len(hpAfter) >= Len(hp)
    /\ \A a \in 1..Len(hp) : hpAfter[a] = hp[a]

\* C16: a reducer of createReducerAppend (or handleActionsAppend), called
\* with an action whose type is a key of the mapping, returns an object
\* allocated by that call: no object that existed before, so neither the
\* input state nor the initial state, also when the handler returns {}.
\* No object that existed before the call is modified, the input state
\* included, and the initial-state object is as it was configured after
\* every sequence of calls.
C16_AppendResultIsFresh ==
    /\ \A i \in 1..Len(log) :
        LET c == log[i]
        IN  (IsAppend /\ c.action.type \in DOMAIN reducerMap /\ ~c.threw) =>
                /\ c.value.t = "object"
                /\ c.value.n > Len(c.heap)
                /\ c.value # c.state
                /\ c.value # initialState
                /\ Untouched(c.heap, HeapAfter(i))
    /\ (IsAppend /\ initialState.t = "object") =>
            heap[initialState.n] = InitialHeap[initialState.n]

\* C16 witness: an append reducer was called twice with a handled type, the
\* first time with the missing state, the second time with a handler that
\* returns an empty partial, and both calls returned.
C16_Witness ==
    /\ IsAppend
    /\ Len(log) = 2
    /\ log[1].state = Undefined
    /\ \A i \in 1..2 :
        /\ log[i].action.type \in DOMAIN reducerMap
        /\ ~log[i].threw
    /\ reducerMap[log[2].action.type] = "emptyPartial"

\* ------------------------------------------------------------------------
\* Properties of handle and of shared reducers and creators
\* (under SpecCallers)
\* ------------------------------------------------------------------------
\* The types of the actions a creator makes, whatever data it is given.
TypesMadeBy(creator) ==
    {actionCreator(creator, heap, counter, lastError, data).action.type :
        data \in DataFor(creator)}

\* C11: handle(creator, handler) is a mapping with exactly one entry: its
\* key is the type of the actions creator makes, its value is handler.  The
\* reducer built from it calls handler, once and with (state, payload), on
\* the actions of that type, and on no other action.
C11_HandleKeysByCreatorType ==
    handleArgs # NoHandleArgs =>
        LET creator == handleArgs.action
            handler == handleArgs.reducer
            mapping == reducerMaps[1]
        IN  /\ Len(reducerMaps) = 1
            /\ Cardinality(DOMAIN mapping) = 1
            /\ DOMAIN mapping = TypesMadeBy(creator)
            /\ \A k \in DOMAIN mapping : mapping[k] = handler
            /\ \A i \in 1..Len(log) :
                LET c == log[i]
                    st == DefaultState(c.state, initialState)
                    applied == c.calls = <<[handler |-> handler,
                                            state |-> st,
                                            payload |-> c.action.payload,
                                            value |-> c.calls[1].value]>>
                    made == c.action.type \in TypesMadeBy(creator)
                IN  /\ made => Len(c.calls) = 1 /\ applied
                    /\ ~made => \A j \in 1..Len(c.calls) :
                                    c.calls[j].handler # handler

\* C11 witness: the reducer built from handle(creator, handler) was called
\* with an action the creator made, and handler ran, and with an action of
\* another creator, and no handler ran.
C11_Witness ==
    /\ handleArgs # NoHandleArgs
    /\ Len(log) = 2
    /\ sends[1].creator = handleArgs.action
    /\ Len(log[1].calls) = 1
    /\ log[1].calls[1].handler = handleArgs.reducer
    /\ sends[2].creator.type # handleArgs.action.type
    /\ log[2].calls = <<>>

RECURSIVE Deep(_, _)
\* A value as deepEqual sees it: an object by its properties, to any depth,
\* whatever its address.
Deep(hp, v) ==
    IF v.t = "object" THEN [k \in DOMAIN hp[v.n] |-> Deep(hp, hp[v.n][k])]
    ELSE v

\* What a caller sees of one call: the action the creator returned and the
\* reducer's result, or that it threw.
Seen(hp, a, r) ==
    [action |-> [type |-> a.type, payload |-> Deep(hp, a.payload)],
     threw |-> r.threw, result |-> Deep(hp, r.value)]

RECURSIVE Interleaved(_, _)
\* What caller saw of its calls from the k-th call of the log on.
Interleaved(caller, k) ==
    IF k > Len(log) THEN <<>>
    ELSE IF sends[k].caller # caller THEN Interleaved(caller, k + 1)
    ELSE <<Seen(HeapAfter(k), log[k].action, log[k])>>
            \o Interleaved(caller, k + 1)

RECURSIVE Alone(_, _, _, _)
\* What caller sees when it makes its calls, from the k-th on, with no other
\* caller: from the state st it holds, on the heap hp, the counter and
\* lastError of the effects as they are at the start.
Alone(caller, k, hp, st) ==
    IF k > Len(sends) THEN <<>>
    ELSE IF sends[k].caller # caller THEN Alone(caller, k + 1, hp, st)
    ELSE LET made == actionCreator(sends[k].creator, hp, 0, Str(<<>>),
                                   sends[k].data)
             r == reducer(hp, st, made.action)
         IN  <<Seen(r.heap, made.action, r)>>
                \o Alone(caller, k + 1, r.heap,
                         IF r.threw THEN st ELSE r.value)

\* C14: two callers share one reducer and the same action creators and make
\* their calls in any order: each caller gets, call by call, the actions
\* and the results it gets when it makes the same calls alone.
C14_CallersDoNotInterfere ==
    \A caller \in {1, 2} :
        Interleaved(caller, 1) = Alone(caller, 1, InitialHeap, Undefined)

\* C14 witness: caller 1 made a call the handler answered, then caller 2
\* made its first call, with the same creator, and the handler answered it
\* too: both started from the missing state.
C14_Witness ==
    /\ Len(log) = 2
    /\ sends[1].caller = 1
    /\ sends[2].caller = 2
    /\ sends[1].creator = handleArgs.action
    /\ sends[2].creator = handleArgs.action
    /\ \A i \in 1..2 :
        /\ log[i].state = Undefined
        /\ Len(log[i].calls) = 1
        /\ ~log[i].threw

\* ------------------------------------------------------------------------
\* Properties of a store of two slices (under SpecStore)
\* ------------------------------------------------------------------------
\* The actions dispatched so far, in order.
Dispatched == [i \in 1..Len(dispatched) |-> dispatched[i].action]

\* inc, inc, append('abc'), dec, asynch.start(10), asynch.success(1)
Scenario ==
    <<[type |-> "inc", payload |-> Null],
      [type |-> "inc", payload |-> Null],
      [type |-> "append", payload |-> Str(<<"a", "b", "c">>)],
      [type |-> "dec", payload |-> Null],
      [type |-> "asynch:start", payload |-> Num(10)],
      [type |-> "asynch:success", payload |-> Num(1)]>>

\* After the scenario the slices are 1 and {val: 9, str: 'abc'}.
ScenarioEndsAsTested ==
    Dispatched = Scenario =>
        /\ store.a = Num(1)
        /\ Deep(heap, store.b) =
            [k \in {"val", "str"} |->
                IF k = "val" THEN Num(9) ELSE Str(<<"a", "b", "c">>)]

\* An action leaves the slice whose mapping has not its type as it was, by
\* reference.
OnlyOwnSliceChanges ==
    \A i \in 1..Len(dispatched) :
        LET d == dispatched[i]
        IN  /\ d.action.type \notin DOMAIN MergedMap(MapsA) =>
                    d.after.a = d.before.a
            /\ d.action.type \notin DOMAIN MergedMap(MapsB) =>
                    d.after.b = d.before.b

\* C15: in a store of the slices a (reducerA) and b (reducerB), over any
\* sequence of dispatches an action changes only the slice whose mapping
\* has its type and the other slice keeps its state by reference; and after
\* inc, inc, append('abc'), dec, asynch.start(10), asynch.success(1) the
\* slices are 1 and {val: 9, str: 'abc'}.
C15_SlicesChangeOnlyOnOwnActions ==
    OnlyOwnSliceChanges /\ ScenarioEndsAsTested

====
